---- MODULE Spec2Model ----
(***************************************************************************)
(* Model of src/experiment.py: run_experiment and _run_training_loop, the  *)
(* training control loop with adaptive learning-rate scheduling and the    *)
(* snapshot store (_save_model_snapshot / _load_model_snapshot).           *)
(*                                                                         *)
(* Abstractions:                                                           *)
(*  - model parameters are a provenance tag: 0 for a freshly built         *)
(*    network, n for the parameters written by the training step of epoch  *)
(*    index n - 1;                                                         *)
(*  - a learning rate m * 10^-e is the pair <<m, e>> (exact decimal        *)
(*    arithmetic, float32 rounding is not modelled);                       *)
(*  - a float is a small natural or NaN; comparisons with NaN are false;   *)
(*  - the reporting sink (stdout) is the sequence reports.                 *)
(***************************************************************************)
EXTENDS Integers, Sequences, FiniteSets, TLC

\* ---------------------------------------------------------------- bounds
MaxEpochs == 6
MaxAcc == 1
MaxRuns == 2
MaxSnapshotEvery == 2
MaxLongEpochs == 9
MaxStoreEpoch == 2
MaxStoreParams == 1

\* ------------------------------------------------------------- constants
\* _MIN_LEARNING_RATE = 1e-10, as <<mantissa, negated decimal exponent>>
MinRateMantissa == 1
MinRateExponent == 10
_MIN_LEARNING_RATE == <<MinRateMantissa, MinRateExponent>>
_LEARNING_RATE_GRACE_PERIOD == 3

\* ---------------------------------------------------------------- values
NaN == -1
Unbound == -2
None == <<>>
NoFile == <<>>
Partial == <<-1>>

Accuracies == (0..MaxAcc) \cup {NaN}
Losses == {0, NaN}
\* learning_rate argument of run_experiment: 1e-8, 1e-9 and 5e-10
LearningRates == {<<1, 8>>, <<1, 9>>, <<5, 10>>}

\* float comparisons: any comparison with NaN is false
FloatGt(a, b) == a # NaN /\ b # NaN /\ a > b
FloatLe(a, b) == a # NaN /\ b # NaN /\ a <= b

RECURSIVE Pow10(_)
Pow10(n) == IF n = 0 THEN 1 ELSE 10 * Pow10(n - 1)

Min2(a, b) == IF a < b THEN a ELSE b

\* a < b for rates <<m, e>> = m * 10^-e
RateLess(a, b) ==
    LET k == Min2(a[2], b[2])
    IN  a[1] * Pow10(b[2] - k) < b[1] * Pow10(a[2] - k)

\* variant of Div10: the rate is divided by 100
Div10ByHundred(r) == <<r[1], r[2] + 2>>

\* learning_rate_var.get_value() / floatX(10)
Div10(r) == <<r[1], r[2] + 1>>

\* _MaxState namedtuple
_MaxState(accuracy, ep, ps) == <<accuracy, ep, ps>>
accuracy_of(ms) == ms[1]
epoch_of(ms) == ms[2]
params_of(ms) == ms[3]

\* snapshot_prefix='model', the default
snapshot_prefix == "model"

\* '%s.snapshot-%s.pkl.zip' % (snapshot_prefix, next_epoch)
SnapshotPath(prefix, n) == <<prefix, n, "pkl.zip">>

\* snapshot_prefix values: the default and one other
Prefixes == {snapshot_prefix, "other"}

Paths == {SnapshotPath(prefix, n) : prefix \in Prefixes, n \in 1..MaxEpochs}

\* no call of the snapshot store has been made
NoCall == [op |-> "none", prefix |-> snapshot_prefix, epoch |-> 0,
           params |-> 0, before |-> NoFile, result |-> NoFile]

VARIABLES
    pc, outcome, runs,
    num_epochs, snapshot_every, snapshot_final_model, adapt_learning_rate,
    learning_rate, start_from_snapshot, start_epoch,
    learning_rate_var, params, epoch, next_epoch,
    training_loss, validation_loss, validation_accuracy, max_state,
    store, reports,
    adapt_event, snapshot_epoch, max_epoch_accuracy, train_calls, raised,
    reductions, max_seen, io

config == <<num_epochs, snapshot_every, snapshot_final_model,
            adapt_learning_rate, learning_rate, start_from_snapshot,
            start_epoch>>
locals == <<epoch, next_epoch, training_loss, validation_loss,
            validation_accuracy, max_state>>
ghosts == <<adapt_event, snapshot_epoch, max_epoch_accuracy, train_calls,
            raised>>
history == <<reductions, max_seen, io>>
vars == <<pc, outcome, runs, config, learning_rate_var, params, locals,
          store, reports, ghosts, history>>

LoopPcs == {"initval", "train", "validate", "report", "snapshot",
            "snapshot_dump", "adapt", "final", "final_dump"}

Init ==
    /\ pc = "idle"
    /\ outcome = "None"
    /\ runs = 0
    /\ num_epochs = 0
    /\ snapshot_every = 0
    /\ snapshot_final_model = FALSE
    /\ adapt_learning_rate = FALSE
    /\ learning_rate = <<1, 9>>
    /\ start_from_snapshot = None
    /\ start_epoch = 0
    /\ learning_rate_var = <<1, 9>>
    /\ params = 0
    /\ epoch = Unbound
    /\ next_epoch = Unbound
    /\ training_loss = Unbound
    /\ validation_loss = Unbound
    /\ validation_accuracy = Unbound
    /\ max_state = None
    /\ store = [p \in Paths |-> NoFile]
    /\ reports = <<>>
    /\ adapt_event = "none"
    /\ snapshot_epoch = Unbound
    /\ max_epoch_accuracy = Unbound
    /\ train_calls = 0
    /\ raised = "none"
    /\ reductions = <<>>
    /\ max_seen = Unbound
    /\ io = NoCall

\* variant of except_clause: the KeyboardInterrupt clause is missing
except_clause_overflow_only(exc) ==
    IF exc = "OverflowError" THEN "Diverged" ELSE exc

\* lines 100-106: the except clauses around _run_training_loop; the result
\* is the terminal outcome, an exception without a clause propagates
except_clause(exc) ==
    IF exc = "OverflowError" THEN "Diverged"
    ELSE IF exc = "KeyboardInterrupt" THEN "Interrupted"
    ELSE exc

\* _load_model_snapshot: the pickled pair; a truncated file does not unpickle
_load_model_snapshot(path) == store[path]

\* variant of shared_floatX: the cell of the previous run is used again
shared_carried_over(lr) == IF runs = 0 THEN lr ELSE learning_rate_var

\* line 82: theano.shared(lasagne.utils.floatX(learning_rate))
shared_floatX(lr) == lr

\* run_experiment up to the call of _run_training_loop (lines 82-101)
run_experiment(ne, se, sf, al, lr, snap) ==
    /\ runs < MaxRuns
    /\ runs' = runs + 1
    /\ num_epochs' = ne
    /\ snapshot_every' = se
    /\ snapshot_final_model' = sf
    /\ adapt_learning_rate' = al
    /\ learning_rate' = lr
    /\ start_from_snapshot' = snap
    /\ learning_rate_var' = shared_floatX(lr)
    /\ IF snap = None
       THEN /\ start_epoch' = 0
            /\ params' = 0
            /\ pc' = "initval"
            /\ outcome' = "Running"
            /\ raised' = "none"
       ELSE IF _load_model_snapshot(snap) = Partial
       THEN /\ start_epoch' = 0
            /\ params' = 0
            /\ pc' = "done"
            /\ outcome' = "UnpicklingError"
            /\ raised' = "UnpicklingError"
       ELSE /\ start_epoch' = _load_model_snapshot(snap)[1]
            /\ params' = _load_model_snapshot(snap)[2]
            /\ pc' = "initval"
            /\ outcome' = "Running"
            /\ raised' = "none"
    /\ epoch' = Unbound
    /\ next_epoch' = Unbound
    /\ training_loss' = Unbound
    /\ validation_loss' = Unbound
    /\ validation_accuracy' = Unbound
    /\ max_state' = None
    /\ reports' = <<>>
    /\ adapt_event' = "none"
    /\ snapshot_epoch' = Unbound
    /\ max_epoch_accuracy' = Unbound
    /\ train_calls' = 0
    /\ reductions' = <<>>
    /\ max_seen' = Unbound
    /\ UNCHANGED <<store, io>>

\* a first run, from a freshly built network
FreshRun ==
    /\ pc = "idle"
    /\ \E ne \in 0..MaxEpochs, se \in 0..MaxSnapshotEvery, sf \in BOOLEAN,
          al \in BOOLEAN, lr \in LearningRates :
        run_experiment(ne, se, sf, al, lr, None)

\* a later run resumed from a snapshot file; the docstring of
\* start_from_snapshot requires all the original arguments to be passed again
ResumedRun ==
    /\ pc = "done"
    /\ \E snap \in {p \in Paths : store[p] # NoFile} :
        run_experiment(num_epochs, snapshot_every, snapshot_final_model,
                       adapt_learning_rate, learning_rate, snap)

\* variant of LoopEnter: the first iteration uses start_epoch + 1
LoopEnterSkip ==
    IF start_epoch < num_epochs
    THEN epoch' = start_epoch + 1 /\ pc' = "train"
    ELSE epoch' = epoch /\ pc' = "final"

\* for epoch in xrange(start_epoch, num_epochs): first iteration or exit
LoopEnter ==
    IF start_epoch < num_epochs
    THEN epoch' = start_epoch /\ pc' = "train"
    ELSE epoch' = epoch /\ pc' = "final"

\* variant of LoopNext: the range includes num_epochs
LoopNextInclusive ==
    IF epoch + 1 <= num_epochs
    THEN epoch' = epoch + 1 /\ pc' = "train"
    ELSE epoch' = epoch /\ pc' = "final"

\* next iteration or exit
LoopNext ==
    IF epoch + 1 < num_epochs
    THEN epoch' = epoch + 1 /\ pc' = "train"
    ELSE epoch' = epoch /\ pc' = "final"

\* lines 220-224: initial validation, its report, max_state = None
InitialValidation ==
    /\ pc = "initval"
    /\ \E vl \in Losses, va \in Accuracies :
        /\ validation_loss' = vl
        /\ validation_accuracy' = va
        /\ reports' = Append(reports, 0)
    /\ max_state' = None
    /\ LoopEnter
    /\ UNCHANGED <<outcome, runs, config, learning_rate_var, params,
                   next_epoch, training_loss, store, adapt_event,
                   snapshot_epoch,
                   max_epoch_accuracy, train_calls, raised>>
    /\ UNCHANGED history

\* line 226: training_iter() writes the live parameters
TrainingStep ==
    /\ pc = "train"
    /\ \E tl \in Losses : training_loss' = tl
    /\ params' = epoch + 1
    /\ train_calls' = train_calls + 1
    /\ adapt_event' = "none"
    /\ pc' = "validate"
    /\ UNCHANGED <<outcome, runs, config, learning_rate_var, epoch,
                   next_epoch, validation_loss, validation_accuracy,
                   max_state, store, reports, snapshot_epoch,
                   max_epoch_accuracy, raised>>
    /\ UNCHANGED history

\* the largest accuracy among those seen; NaN counts only until a number
\* has been seen
RunningMax(m, va) ==
    IF m = Unbound \/ m = NaN THEN va
    ELSE IF va = NaN THEN m
    ELSE IF va > m THEN va ELSE m

\* line 227: validation_eval()
Validation ==
    /\ pc = "validate"
    /\ \E vl \in Losses, va \in Accuracies :
        /\ validation_loss' = vl
        /\ validation_accuracy' = va
        /\ max_seen' = RunningMax(max_seen, va)
    /\ pc' = "report"
    /\ UNCHANGED <<outcome, runs, config, learning_rate_var, params, epoch,
                   next_epoch, training_loss, max_state, store, reports,
                   adapt_event, snapshot_epoch,
                   max_epoch_accuracy, train_calls, raised>>
    /\ UNCHANGED <<reductions, io>>

\* variant of Report: the snapshot block is not reached before the adaptive
\* step
ReportThenAdapt ==
    /\ pc = "report"
    /\ next_epoch' = epoch + 1
    /\ reports' = Append(reports, epoch + 1)
    /\ pc' = "adapt"
    /\ UNCHANGED <<outcome, runs, config, learning_rate_var, params, epoch,
                   training_loss, validation_loss, validation_accuracy,
                   max_state, store, ghosts, history>>

\* lines 228-233: next_epoch = epoch + 1 and the per-epoch report
Report ==
    /\ pc = "report"
    /\ next_epoch' = epoch + 1
    /\ reports' = Append(reports, epoch + 1)
    /\ pc' = "snapshot"
    /\ UNCHANGED <<outcome, runs, config, learning_rate_var, params, epoch,
                   training_loss, validation_loss, validation_accuracy,
                   max_state, store, adapt_event, snapshot_epoch,
                   max_epoch_accuracy, train_calls, raised>>
    /\ UNCHANGED history

\* variant of SnapshotDue: the test uses epoch instead of next_epoch
SnapshotDueOnEpoch == snapshot_every # 0 /\ epoch % snapshot_every = 0

\* line 235: the periodic-snapshot condition
SnapshotDue == snapshot_every # 0 /\ next_epoch % snapshot_every = 0

\* line 139: open(snapshot_path, 'wb') truncates or creates the file
OpenForWrite(prefix, n) ==
    store' = [store EXCEPT ![SnapshotPath(prefix, n)] = Partial]

\* variant of _save_model_snapshot: the epoch index is pickled in place of
\* next_epoch
save_epoch_index(output_layer, prefix, n) ==
    store' = [store EXCEPT ![SnapshotPath(prefix, n)] = <<n - 1, output_layer>>]

\* line 140: pkl_utils.dump((next_epoch, output_layer), out)
_save_model_snapshot(output_layer, prefix, n) ==
    store' = [store EXCEPT ![SnapshotPath(prefix, n)] = <<n, output_layer>>]

\* lines 235-236 with 137-139: the periodic check and the file's opening
SnapshotCheck ==
    /\ pc = "snapshot"
    /\ IF SnapshotDue
       THEN OpenForWrite(snapshot_prefix, next_epoch) /\ pc' = "snapshot_dump"
       ELSE store' = store /\ pc' = "adapt"
    /\ UNCHANGED <<outcome, runs, config, learning_rate_var, params, locals,
                   reports, ghosts>>
    /\ UNCHANGED history

\* line 236 with 140: the periodic snapshot is written
SnapshotDump ==
    /\ pc = "snapshot_dump"
    /\ _save_model_snapshot(params, snapshot_prefix, next_epoch)
    /\ snapshot_epoch' = epoch
    /\ pc' = "adapt"
    /\ UNCHANGED <<outcome, runs, config, learning_rate_var, params, locals,
                   reports, adapt_event, max_epoch_accuracy, train_calls,
                   raised>>
    /\ UNCHANGED history

\* variant of Capture: the loss is stored in place of the accuracy
CaptureLoss(ms) ==
    IF ms = None \/ FloatGt(validation_accuracy, accuracy_of(ms))
    THEN _MaxState(validation_loss, epoch, params)
    ELSE ms

\* variant of Capture: >= in place of >
CaptureOnEqual(ms) ==
    IF ms = None \/ FloatGt(validation_accuracy, accuracy_of(ms))
                 \/ validation_accuracy = accuracy_of(ms)
    THEN _MaxState(validation_accuracy, epoch, params)
    ELSE ms

\* lines 239-240: capture of the best state
Capture(ms) ==
    IF ms = None \/ FloatGt(validation_accuracy, accuracy_of(ms))
    THEN _MaxState(validation_accuracy, epoch, params)
    ELSE ms

\* variant of ReductionDue: >= in place of >
ReductionDueEarly(ms) ==
    /\ FloatLe(validation_accuracy, accuracy_of(ms))
    /\ epoch - epoch_of(ms) >= _LEARNING_RATE_GRACE_PERIOD

\* variant of ReductionDue: the accuracy comparison is missing
ReductionDueByEpochOnly(ms) ==
    epoch - epoch_of(ms) > _LEARNING_RATE_GRACE_PERIOD

\* line 242: the reduction-event condition
ReductionDue(ms) ==
    /\ FloatLe(validation_accuracy, accuracy_of(ms))
    /\ epoch - epoch_of(ms) > _LEARNING_RATE_GRACE_PERIOD

\* variant of BelowMinimum: <= in place of <
AtOrBelowMinimum(rate) ==
    RateLess(rate, _MIN_LEARNING_RATE) \/ rate = _MIN_LEARNING_RATE

\* variant of BelowMinimum: the minimum is not enforced
BelowMinimumNever(rate) == FALSE

\* line 244
BelowMinimum(rate) == RateLess(rate, _MIN_LEARNING_RATE)

\* variant of Refresh: the epoch of the MaxState is left as it was
RefreshNothing(ms) == ms

\* line 249: the MaxState after a reduction event
Refresh(ms) == _MaxState(accuracy_of(ms), epoch, params_of(ms))

\* lines 238-250 and the loop's next iteration
AdaptStep ==
    /\ pc = "adapt"
    /\ IF ~adapt_learning_rate
       THEN /\ adapt_event' = "off"
            /\ UNCHANGED <<max_state, learning_rate_var, params,
                           max_epoch_accuracy, reductions>>
            /\ LoopNext
       ELSE LET ms == Capture(max_state)
                new_learning_rate == Div10(learning_rate_var)
            IN  IF ReductionDue(ms)
                THEN IF BelowMinimum(new_learning_rate)
                     THEN /\ adapt_event' = "minstop"
                          /\ max_state' = ms
                          /\ UNCHANGED <<learning_rate_var, params, epoch,
                                         max_epoch_accuracy, reductions>>
                          /\ pc' = "final"
                     ELSE /\ adapt_event' = "reduced"
                          /\ learning_rate_var' = new_learning_rate
                          /\ params' = params_of(ms)
                          /\ max_state' = Refresh(ms)
                          /\ max_epoch_accuracy' = validation_accuracy
                          /\ reductions' = Append(reductions, epoch)
                          /\ LoopNext
                ELSE /\ adapt_event' = IF ms = max_state THEN "grace"
                                                         ELSE "captured"
                     /\ max_state' = ms
                     /\ max_epoch_accuracy' =
                            IF ms = max_state THEN max_epoch_accuracy
                                              ELSE validation_accuracy
                     /\ UNCHANGED <<learning_rate_var, params, reductions>>
                     /\ LoopNext
    /\ UNCHANGED <<outcome, runs, config, next_epoch, training_loss,
                   validation_loss, validation_accuracy, store, reports,
                   snapshot_epoch, train_calls, raised>>
    /\ UNCHANGED <<max_seen, io>>

\* the outcome of a run whose loop was left without an exception: by the
\* break of line 246 or by exhausting xrange
LoopOutcome == IF adapt_event = "minstop" THEN "Stopped" ELSE "Completed"

\* lines 252-254 with 137-139: the final snapshot's check and the file's
\* opening; next_epoch is unbound when the loop body never ran
FinalCheck ==
    /\ pc = "final"
    /\ IF ~snapshot_final_model
       THEN /\ pc' = "done"
            /\ outcome' = LoopOutcome
            /\ raised' = raised
            /\ store' = store
       ELSE IF next_epoch = Unbound
       THEN /\ pc' = "done"
            /\ outcome' = except_clause("UnboundLocalError")
            /\ raised' = "UnboundLocalError"
            /\ store' = store
       ELSE /\ pc' = "final_dump"
            /\ outcome' = outcome
            /\ raised' = raised
            /\ OpenForWrite(snapshot_prefix, next_epoch)
    /\ UNCHANGED <<runs, config, learning_rate_var, params, locals, reports,
                   adapt_event, snapshot_epoch, max_epoch_accuracy,
                   train_calls>>
    /\ UNCHANGED history

\* line 254 with 140: the final snapshot is written, the loop returns
FinalDump ==
    /\ pc = "final_dump"
    /\ _save_model_snapshot(params, snapshot_prefix, next_epoch)
    /\ pc' = "done"
    /\ outcome' = LoopOutcome
    /\ UNCHANGED <<runs, config, learning_rate_var, params, locals, reports,
                   ghosts>>
    /\ UNCHANGED history

\* an exception leaves _run_training_loop and reaches lines 103-106; a
\* training step that is cut short may or may not have written the parameters
Unwind(exc) ==
    /\ raised' = exc
    /\ outcome' = except_clause(exc)
    /\ pc' = "done"
    /\ IF pc = "train" THEN params' \in {params, epoch + 1}
                       ELSE params' = params
    /\ UNCHANGED <<runs, config, learning_rate_var, locals, store, reports,
                   adapt_event, snapshot_epoch, max_epoch_accuracy>>
    /\ UNCHANGED history

\* training_iter() or validation_eval() raises OverflowError
Overflow ==
    /\ pc \in {"initval", "train", "validate"}
    /\ train_calls' = IF pc = "train" THEN train_calls + 1 ELSE train_calls
    /\ Unwind("OverflowError")

\* a KeyboardInterrupt arrives anywhere inside _run_training_loop
Interrupt ==
    /\ pc \in LoopPcs
    /\ train_calls' = train_calls
    /\ Unwind("KeyboardInterrupt")

Next ==
    \/ FreshRun
    \/ ResumedRun
    \/ InitialValidation
    \/ TrainingStep
    \/ Validation
    \/ Report
    \/ SnapshotCheck
    \/ SnapshotDump
    \/ AdaptStep
    \/ FinalCheck
    \/ FinalDump
    \/ Overflow
    \/ Interrupt

Spec == Init /\ [][Next]_vars

\* ----------------------------------------------- long adaptive runs
\* a fresh run in adaptive mode without snapshots, over more epochs
AdaptiveRun ==
    /\ pc = "idle"
    /\ \E ne \in 0..MaxLongEpochs, lr \in LearningRates :
        run_experiment(ne, 0, FALSE, TRUE, lr, None)

AdaptiveNext ==
    \/ AdaptiveRun
    \/ InitialValidation
    \/ TrainingStep
    \/ Validation
    \/ Report
    \/ SnapshotCheck
    \/ AdaptStep
    \/ FinalCheck
    \/ Overflow
    \/ Interrupt

AdaptiveSpec == Init /\ [][AdaptiveNext]_vars

\* ------------------------------------------------ the snapshot store
\* everything but the store and the record of its last call
outside_store == <<pc, outcome, runs, config, learning_rate_var, params,
                   locals, reports, ghosts, reductions, max_seen>>

\* _save_model_snapshot(output_layer, snapshot_prefix, next_epoch), up to
\* the file's opening
StoreSaveOpen ==
    /\ io.op \in {"none", "saved", "loaded"}
    /\ \E prefix \in Prefixes, n \in 1..MaxStoreEpoch, ps \in 0..MaxStoreParams :
        /\ OpenForWrite(prefix, n)
        /\ io' = [op |-> "saving", prefix |-> prefix, epoch |-> n,
                  params |-> ps, before |-> store[SnapshotPath(prefix, n)],
                  result |-> NoFile]
    /\ UNCHANGED outside_store

\* _save_model_snapshot, the dump
StoreSaveDump ==
    /\ io.op = "saving"
    /\ _save_model_snapshot(io.params, io.prefix, io.epoch)
    /\ io' = [io EXCEPT !.op = "saved"]
    /\ UNCHANGED outside_store

\* _load_model_snapshot of the path just written
StoreLoad ==
    /\ io.op = "saved"
    /\ io' = [io EXCEPT !.op = "loaded",
                        !.result = _load_model_snapshot(
                                       SnapshotPath(io.prefix, io.epoch))]
    /\ UNCHANGED <<store, outside_store>>

StoreNext ==
    \/ StoreSaveOpen
    \/ StoreSaveDump
    \/ StoreLoad

StoreSpec == Init /\ [][StoreNext]_vars

\* ------------------------------------------------------------------ claims

\* the reports of a run that executes the epochs first .. last: the initial
\* report, then one report per epoch, in order
ReportsOf(first, last) ==
    [i \in 1..(last - first + 2) |-> IF i = 1 THEN 0 ELSE first + i - 1]

\* the step is the adaptive step of an epoch, not an interrupt
AdaptTaken == pc = "adapt" /\ raised' = raised

\* the rate is below ten times the minimum rate
TenthBelowMinimum(r) ==
    RateLess(r, <<MinRateMantissa, MinRateExponent - 1>>)

\* C1: a run that ends without divergence, interrupt or minimum-rate stop,
\* with start_epoch <= num_epochs, has called the training step exactly
\* num_epochs - start_epoch times and has reported the initial validation
\* once and then every executed epoch once, in epoch order.
C1_ExactEpochs ==
    (pc = "done" /\ outcome \in {"Completed", "UnboundLocalError"}
                 /\ start_epoch <= num_epochs)
    => /\ train_calls = num_epochs - start_epoch
       /\ reports = ReportsOf(start_epoch, num_epochs - 1)

C1_Witness ==
    /\ pc = "done" /\ outcome = "Completed"
    /\ start_epoch > 0 /\ num_epochs - start_epoch >= 2
    /\ train_calls = num_epochs - start_epoch
    /\ Len(reports) = train_calls + 1

\* C2: a reduction event that does not stop the loop leaves the live
\* parameters equal to the parameters of the current MaxState and the
\* learning-rate cell at a tenth of its previous value.
C2_ReductionEffect ==
    [][(AdaptTaken /\ adapt_event' = "reduced")
       => /\ params' = params_of(max_state')
          /\ learning_rate_var'[1] = learning_rate_var[1]
          /\ learning_rate_var'[2] = learning_rate_var[2] + 1]_vars

C2_Witness ==
    /\ adapt_event = "reduced"
    /\ params = params_of(max_state)
    /\ params # next_epoch
    /\ learning_rate_var = <<1, 10>>

C4_MinimumRateStop ==
    [][/\ adapt_event' = "minstop"
          => /\ learning_rate_var' = learning_rate_var
             /\ train_calls' = train_calls
             /\ epoch' = epoch
             /\ pc' \in {"final", "final_dump", "done"}
       /\ (AdaptTaken /\ adapt_event' \in {"reduced", "minstop"})
          => (adapt_event' = "minstop"
                <=> TenthBelowMinimum(learning_rate_var))]_vars

C4_Witness ==
    /\ adapt_event = "minstop"
    /\ outcome = "Stopped"
    /\ learning_rate_var = <<5, 10>>
    /\ train_calls < num_epochs - start_epoch

\* some value of the last reported epoch is NaN
NaNReported ==
    /\ next_epoch # Unbound
    /\ pc \in {"snapshot", "snapshot_dump", "adapt", "train", "final",
               "final_dump", "done"}
    /\ (training_loss = NaN \/ validation_loss = NaN
                            \/ validation_accuracy = NaN)

\* C5: once an epoch has reported a NaN training loss, validation loss or
\* validation accuracy, the training step is never called again.
C5_NaNStops == [][NaNReported => train_calls' = train_calls]_vars

\* C6: a run that executed at least one epoch with the final-snapshot policy
\* on has, once it has ended by completion, divergence, minimum-rate stop or
\* interrupt, a snapshot with next_epoch = last completed epoch + 1.
C6_FinalSnapshotAlways ==
    (/\ pc = "done"
     /\ snapshot_final_model
     /\ next_epoch # Unbound
     /\ outcome \in {"Completed", "Stopped", "Diverged", "Interrupted"})
    => /\ store[SnapshotPath(snapshot_prefix, next_epoch)] # NoFile
       /\ store[SnapshotPath(snapshot_prefix, next_epoch)] # Partial
       /\ store[SnapshotPath(snapshot_prefix, next_epoch)][1] = next_epoch

\* C7: an OverflowError or a KeyboardInterrupt raised inside the training
\* loop ends the run with the outcome Diverged, respectively Interrupted:
\* the run is over and the exception has not reached the caller.
C7_CaughtOnce ==
    /\ raised = "OverflowError" => (outcome = "Diverged" /\ pc = "done")
    /\ raised = "KeyboardInterrupt" => (outcome = "Interrupted" /\ pc = "done")

C7_Witness ==
    /\ raised = "KeyboardInterrupt"
    /\ outcome = "Interrupted"
    /\ train_calls >= 2
    /\ next_epoch = epoch

\* C8: an epoch that has passed its snapshot check has written a periodic
\* snapshot if and only if snapshot_every is nonzero and divides epoch + 1;
\* the written pair records epoch + 1; with snapshot_every = 0 no periodic
\* snapshot is written.
C8_PeriodicSnapshot ==
    /\ pc = "adapt" =>
        /\ snapshot_epoch = epoch
             <=> (snapshot_every # 0 /\ (epoch + 1) % snapshot_every = 0)
        /\ snapshot_epoch = epoch
             => store[SnapshotPath(snapshot_prefix, epoch + 1)]
                    = <<epoch + 1, params>>
    /\ snapshot_every = 0 => snapshot_epoch = Unbound

C8_Witness ==
    /\ pc = "adapt"
    /\ snapshot_every = 2
    /\ snapshot_epoch = epoch
    /\ epoch = 3

\* C9: a fresh run starts at epoch index 0; a run resumed from a snapshot
\* starts at the epoch number the snapshot records, which is the number in
\* its path; the first executed epoch has index start_epoch and the first
\* per-epoch report shows start_epoch + 1.
C9_ResumeNumbering ==
    /\ (pc # "idle" /\ start_from_snapshot = None) => start_epoch = 0
    /\ (pc # "idle" /\ start_from_snapshot # None /\ raised # "UnpicklingError")
         => start_from_snapshot = SnapshotPath(snapshot_prefix, start_epoch)
    /\ (pc = "validate" /\ train_calls = 1) => epoch = start_epoch
    /\ Len(reports) >= 2 => reports[2] = start_epoch + 1

C9_Witness ==
    /\ runs = 2
    /\ start_from_snapshot = SnapshotPath(snapshot_prefix, 2)
    /\ start_epoch = 2
    /\ Len(reports) = 3
    /\ reports[2] = 3

\* C10 as stated: whenever a MaxState exists, its accuracy equals the
\* validation accuracy recorded at the epoch it stores.
C10_AccuracyAtEpoch ==
    max_state # None => accuracy_of(max_state) = max_epoch_accuracy

\* C10 amended: whenever a MaxState exists and holds the parameters written
\* at the epoch it stores, its accuracy equals the validation accuracy
\* recorded at that epoch; when a reduction event has refreshed the epoch,
\* the accuracy recorded at the stored epoch is at most the MaxState's.
C10_AccuracyAtCapture ==
    max_state # None =>
        IF params_of(max_state) = epoch_of(max_state) + 1
        THEN accuracy_of(max_state) = max_epoch_accuracy
        ELSE FloatLe(max_epoch_accuracy, accuracy_of(max_state))

C10_Witness ==
    /\ max_state # None
    /\ adapt_event = "reduced"
    /\ params_of(max_state) # epoch_of(max_state) + 1
    /\ max_epoch_accuracy < accuracy_of(max_state)

\* a reduction event, stopping or not, happens in the step
Fires == adapt_event' \in {"reduced", "minstop"}

\* the content of the snapshot file of next_epoch n
FileOf(prefix, n) == store[SnapshotPath(prefix, n)]

\* C11: once a run is over, however it ended, every snapshot file is
\* complete and the file of next_epoch n holds the pair of n and the
\* parameters written by the training step of epoch n - 1.
C11_NoPartialState ==
    pc = "done" =>
        \A prefix \in Prefixes, n \in 1..MaxEpochs :
            FileOf(prefix, n) # NoFile => FileOf(prefix, n) = <<n, n>>

C13_EmptyLoopCompletes ==
    (/\ pc = "done"
     /\ start_epoch >= num_epochs
     /\ raised \notin {"OverflowError", "KeyboardInterrupt", "UnpicklingError"})
    => (outcome = "Completed" /\ raised = "none")

\* the step belongs to a run that has started
SameRun == runs' = runs /\ pc # "idle"

\* C14: in adaptive mode the adaptive step of an epoch with no MaxState or
\* with a strictly greater validation accuracy sets MaxState to the
\* accuracy, the epoch and the live parameters; every other step of the run
\* leaves MaxState's existence, accuracy and parameters as they were.
C14_MaxStateFrame ==
    [][SameRun =>
         IF AdaptTaken /\ adapt_learning_rate
              /\ (max_state = None
                    \/ FloatGt(validation_accuracy, accuracy_of(max_state)))
         THEN max_state' = <<validation_accuracy, epoch, params>>
         ELSE IF max_state = None
         THEN max_state' = None
         ELSE /\ max_state' # None
              /\ accuracy_of(max_state') = accuracy_of(max_state)
              /\ params_of(max_state') = params_of(max_state)]_vars

C14_Witness ==
    /\ adapt_event = "grace"
    /\ validation_accuracy = accuracy_of(max_state)
    /\ validation_accuracy # NaN
    /\ params_of(max_state) # params

\* the epoch of the last reduction event of the run
LastReduction == reductions[Len(reductions)]

\* C15: a reduction event at epoch e sets MaxState.epoch to e; a later
\* reduction event is more than the grace period after e; and while no
\* epoch after e improves on the best accuracy, the next reduction event
\* fires exactly at epoch e + grace period + 1.
C15_GraceClockReset ==
    [][AdaptTaken =>
         /\ adapt_event' = "reduced" => epoch_of(max_state') = epoch
         /\ (reductions # <<>> /\ Fires)
              => epoch - LastReduction > _LEARNING_RATE_GRACE_PERIOD
         /\ (/\ reductions # <<>>
             /\ epoch_of(max_state) = LastReduction
             /\ ~FloatGt(validation_accuracy, accuracy_of(max_state)))
              => (Fires <=> epoch = LastReduction
                                      + _LEARNING_RATE_GRACE_PERIOD + 1)]_vars

\* the adaptive step of this state is a reduction event that does not stop
\* the loop
ReductionCase ==
    /\ adapt_learning_rate
    /\ max_state # None
    /\ FloatLe(validation_accuracy, accuracy_of(max_state))
    /\ epoch - epoch_of(max_state) > 3
    /\ ~TenthBelowMinimum(learning_rate_var)

\* C16: outside the training step, a step of a run changes the learning-rate
\* cell or the live parameters only if it is the adaptive step of a
\* reduction event that does not stop the loop.
C16_ControllerWrites ==
    [][(SameRun /\ pc # "train" /\ ~(AdaptTaken /\ ReductionCase))
       => (learning_rate_var' = learning_rate_var /\ params' = params)]_vars

C16_Witness ==
    /\ adapt_learning_rate
    /\ adapt_event = "grace"
    /\ train_calls >= 3
    /\ params = next_epoch
    /\ learning_rate_var = learning_rate

\* the order of the steps of the loop
StepOrder ==
    {<<"initval", "train">>, <<"initval", "final">>, <<"train", "validate">>,
     <<"validate", "report">>, <<"report", "snapshot">>,
     <<"snapshot", "snapshot_dump">>, <<"snapshot", "adapt">>,
     <<"snapshot_dump", "adapt">>, <<"adapt", "train">>,
     <<"adapt", "final">>, <<"final", "final_dump">>, <<"final", "done">>,
     <<"final_dump", "done">>}

\* C17: the steps of an epoch come in the order training step, validation,
\* report, periodic snapshot, adaptive step, and the next epoch's training
\* step comes after the adaptive step; validation and report see the
\* parameters written by the epoch's training step; a periodic snapshot of
\* an epoch with a reduction event holds the parameters from before the
\* rollback.
C17_StepOrder ==
    [][(SameRun /\ raised' = raised) =>
         /\ <<pc, pc'>> \in StepOrder
         /\ pc' = "train" => epoch' = (IF pc = "adapt" THEN epoch + 1
                                                       ELSE start_epoch)
         /\ pc' \in {"validate", "report", "snapshot"} => epoch' = epoch
         /\ pc' \in {"validate", "report"} => params' = epoch' + 1
         /\ (pc = "adapt" /\ adapt_event' = "reduced" /\ snapshot_epoch = epoch)
              => store'[SnapshotPath(snapshot_prefix, epoch + 1)]
                   = <<epoch + 1, epoch + 1>>
       ]_vars

C17_Witness ==
    /\ pc = "train"
    /\ adapt_event = "reduced"
    /\ snapshot_epoch = next_epoch - 1
    /\ FileOf(snapshot_prefix, next_epoch) = <<next_epoch, next_epoch>>
    /\ params # next_epoch

\* the learning-rate cell of a run: the initial rate divided by ten once
\* per reduction event so far, not below the minimum when the initial rate
\* is not, and the initial rate when adaptive mode is off
RateOfRun ==
    pc # "idle" =>
        /\ learning_rate_var
             = <<learning_rate[1], learning_rate[2] + Len(reductions)>>
        /\ ~RateLess(learning_rate, <<MinRateMantissa, MinRateExponent>>)
             => ~RateLess(learning_rate_var,
                          <<MinRateMantissa, MinRateExponent>>)
        /\ ~adapt_learning_rate => learning_rate_var = learning_rate

\* C18: within a run the learning-rate cell never increases, is the initial
\* rate divided by 10^k for the k reduction events so far, and is not below
\* the minimum rate; with adaptive mode off it is the initial rate.
C18_RateMonotone ==
    [][/\ RateOfRun'
       /\ SameRun => ~RateLess(learning_rate_var, learning_rate_var')]_vars

C18_Witness ==
    /\ Len(reductions) = 1
    /\ learning_rate = <<1, 9>>
    /\ learning_rate_var = <<1, 10>>
    /\ pc = "train"

\* C19: in adaptive mode, after the adaptive step of every epoch the
\* accuracy of MaxState is the largest validation accuracy returned in the
\* loop so far.
C19_BestSoFar ==
    (adapt_learning_rate
       /\ adapt_event \in {"captured", "grace", "reduced", "minstop"})
    => (max_state # None /\ accuracy_of(max_state) = max_seen)

\* C20: a snapshot file holds a pair of next_epoch and parameters only; a
\* run resumed from one has no MaxState and the configured learning rate
\* until its first adaptive step, and its first reduction event is not
\* before epoch start_epoch + grace period + 1.
C20_ResumeForgets ==
    /\ \A p \in Paths : store[p] \notin {NoFile, Partial} => Len(store[p]) = 2
    /\ (start_from_snapshot # None /\ pc \in LoopPcs /\ train_calls = 0)
         => (max_state = None /\ learning_rate_var = learning_rate)
    /\ (start_from_snapshot # None /\ reductions # <<>>)
         => reductions[1] >= start_epoch + _LEARNING_RATE_GRACE_PERIOD + 1

C20_Witness ==
    /\ runs = 2
    /\ pc = "initval"
    /\ adapt_learning_rate
    /\ start_epoch = 1
    /\ \E p \in Paths : /\ store[p] \notin {NoFile, Partial}
                        /\ store[p][2] # store[p][1]
    /\ max_state = None
    /\ learning_rate_var = learning_rate

====
